---- MODULE Spec2Model ----
(***************************************************************************)
(* reprozip-rs: the ptrace-based tracer (src/src/lib.rs) and its recorder  *)
(* (src/src/database.rs), together with the part of the kernel they talk   *)
(* to: the tasks of the traced program, their ptrace stops and the wait    *)
(* statuses waitpid(-1, __WALL) hands to the event loop.                   *)
(***************************************************************************)
EXTENDS Integers, Sequences, FiniteSets, TLC

(* ------------------------------ bounds --------------------------------- *)
MaxTid == 2         \* TIDs the kernel hands out: 1..MaxTid
MaxForks == 2       \* tasks the traced program may create in one run
MaxByte == 1        \* bytes of a command element: 0..MaxByte (0 is NUL)
MaxArgLen == 1      \* longest command element
MaxCmdLen == 2      \* longest command

Tids == 1..MaxTid
Bytes == 0..MaxByte

ByteStrings == UNION {[1..n -> Bytes] : n \in 0..MaxArgLen}
Commands == UNION {[1..n -> ByteStrings] : n \in 0..MaxCmdLen}

MaxDbCalls == 4     \* Recorder calls made when the Database is driven on its own

ExitCodes == {0, 1}
StopSignals == {"SIGTRAP", "SIGSTOP", "SIGUSR1"}
KillSignals == {"SIGKILL", "SIGSEGV"}
CloneKinds == {"FORK", "VFORK", "CLONE"}

(* the directory current_dir() returns *)
Cwd == "cwd"

(* ----------------------------- values ---------------------------------- *)
\* ExitStatus (lib.rs:55); the tag "None" is Option::None of first_exit_code
Return(code) == [tag |-> "Return", code |-> code, sig |-> ""]
Signal(sig) == [tag |-> "Signal", code |-> 0, sig |-> sig]
NoStatus == [tag |-> "None", code |-> 0, sig |-> ""]

\* ProcessId is a u32; NoId stands for Option::None and for "no identifier"
NoId == -1

\* Thread (lib.rs:69) and ThreadInfo (lib.rs:76)
ThreadGroup(wd) == [working_dir |-> wd]
NoGroup == [working_dir |-> ""]
ThreadInfo(id, tid, group) == [identifier |-> id, tid |-> tid, thread_group |-> group]
Unknown(tid) ==
    [kind |-> "Unknown", identifier |-> NoId, tid |-> tid, thread_group |-> NoGroup]
Allocated(info) ==
    [kind |-> "Allocated", identifier |-> info.identifier, tid |-> info.tid,
     thread_group |-> info.thread_group]
Attached(info) ==
    [kind |-> "Attached", identifier |-> info.identifier, tid |-> info.tid,
     thread_group |-> info.thread_group]

\* wait statuses (nix WaitStatus), as they sit in the kernel until waitpid
\* returns them; cause is the kernel's reason for the stop, which the wait
\* status does not carry and no handler reads
NoEvent == [kind |-> "None", code |-> 0, sig |-> "", event |-> "", msg |-> 0, cause |-> ""]
EvExited(code) == [NoEvent EXCEPT !.kind = "Exited", !.code = code]
EvSignaled(sig) == [NoEvent EXCEPT !.kind = "Signaled", !.sig = sig]
EvStopped(sig, cause) == [NoEvent EXCEPT !.kind = "Stopped", !.sig = sig, !.cause = cause]
EvPtraceEvent(event, msg) ==
    [NoEvent EXCEPT !.kind = "PtraceEvent", !.sig = "SIGTRAP", !.event = event, !.msg = msg]
EvPtraceSyscall == [NoEvent EXCEPT !.kind = "PtraceSyscall"]

\* a kernel task
FreeTask ==
    [st |-> "free", image |-> "", traced |-> FALSE, opts |-> FALSE, ev |-> NoEvent,
     creator |-> 0, announced |-> FALSE, resumed |-> FALSE]

\* removal of a key from a map (HashMap::remove)
MapRemove(m, k) == [x \in DOMAIN m \ {k} |-> m[x]]
MapInsert(m, k, v) == [x \in DOMAIN m \cup {k} |-> IF x = k THEN v ELSE m[x]]
EmptyMap == [x \in {} |-> 0]

(* --------------------------- database.rs ------------------------------- *)
LogEntry ==
    [op |-> "", id |-> NoId, parent |-> NoId, path |-> "", mode |-> "",
     flag |-> FALSE, status |-> NoStatus]

Database_new == [next_process |-> 0, log |-> <<>>]

\* Database_add_process, had it not advanced next_process
Database_add_process_NoIncrement(db, parent, working_dir, is_thread) ==
    [database |->
        [next_process |-> db.next_process,
         log |-> Append(db.log,
                   [LogEntry EXCEPT !.op = "add_process", !.id = db.next_process,
                                    !.parent = parent, !.path = working_dir,
                                    !.flag = is_thread])],
     ret |-> db.next_process]

Database_add_process(db, parent, working_dir, is_thread) ==
    [database |->
        [next_process |-> db.next_process + 1,
         log |-> Append(db.log,
                   [LogEntry EXCEPT !.op = "add_process", !.id = db.next_process,
                                    !.parent = parent, !.path = working_dir,
                                    !.flag = is_thread])],
     ret |-> db.next_process]

Database_add_file_open(db, id, path, mode, is_directory) ==
    [db EXCEPT !.log = Append(@,
        [LogEntry EXCEPT !.op = "add_file_open", !.id = id, !.path = path,
                         !.mode = mode, !.flag = is_directory])]

Database_process_exit(db, id, status) ==
    [db EXCEPT !.log = Append(@,
        [LogEntry EXCEPT !.op = "process_exit", !.id = id, !.status = status])]

Database_commit(db) ==
    [db EXCEPT !.log = Append(@, [LogEntry EXCEPT !.op = "commit"])]

(* ------------------------- lib.rs: Processes --------------------------- *)
Processes_new == [pid2process |-> EmptyMap, identifier2pid |-> EmptyMap]

\* Processes_add_first, had it recorded the root as a thread
Processes_add_first_AsThread(ps, db, tid, thread_group) ==
    LET r == Database_add_process(db, NoId, thread_group.working_dir, TRUE)
        identifier == r.ret
    IN  [processes |->
            [pid2process |->
                MapInsert(ps.pid2process, tid,
                          Allocated(ThreadInfo(identifier, tid, thread_group))),
             identifier2pid |-> MapInsert(ps.identifier2pid, identifier, tid)],
         database |-> r.database,
         ret |-> identifier]

Processes_add_first(ps, db, tid, thread_group) ==
    LET r == Database_add_process(db, NoId, thread_group.working_dir, FALSE)
        identifier == r.ret
    IN  [processes |->
            [pid2process |->
                MapInsert(ps.pid2process, tid,
                          Allocated(ThreadInfo(identifier, tid, thread_group))),
             identifier2pid |-> MapInsert(ps.identifier2pid, identifier, tid)],
         database |-> r.database,
         ret |-> identifier]

Processes_add_unknown(ps, tid) ==
    [ps EXCEPT !.pid2process = MapInsert(@, tid, Unknown(tid))]

ThreadInfo_exit(info, exitstatus, db) ==
    Database_process_exit(db, info.identifier, exitstatus)

\* Processes_exit, had its match recorded process_exit for every variant
Processes_exit_AllKinds(ps, db, tid, exitstatus) ==
    IF tid \notin DOMAIN ps.pid2process
    THEN [panic |-> TRUE, processes |-> ps, database |-> db]
    ELSE LET thread == ps.pid2process[tid]
             removed == [ps EXCEPT !.pid2process = MapRemove(@, tid)]
         IN  [panic |-> FALSE,
              processes |->
                  [removed EXCEPT !.identifier2pid =
                      [x \in DOMAIN @ \ {thread.identifier} |-> @[x]]],
              database |-> ThreadInfo_exit(thread, exitstatus, db)]

\* Processes_exit, had its match named Thread::Attached only
Processes_exit_AttachedOnly(ps, db, tid, exitstatus) ==
    IF tid \notin DOMAIN ps.pid2process
    THEN [panic |-> TRUE, processes |-> ps, database |-> db]
    ELSE LET thread == ps.pid2process[tid]
             removed == [ps EXCEPT !.pid2process = MapRemove(@, tid)]
         IN  IF thread.kind = "Attached"
             THEN [panic |-> FALSE,
                   processes |->
                       [removed EXCEPT !.identifier2pid = MapRemove(@, thread.identifier)],
                   database |-> ThreadInfo_exit(thread, exitstatus, db)]
             ELSE [panic |-> FALSE, processes |-> removed, database |-> db]

\* Processes_exit, had it left identifier2pid alone
Processes_exit_KeepId(ps, db, tid, exitstatus) ==
    IF tid \notin DOMAIN ps.pid2process
    THEN [panic |-> TRUE, processes |-> ps, database |-> db]
    ELSE LET thread == ps.pid2process[tid]
             removed == [ps EXCEPT !.pid2process = MapRemove(@, tid)]
         IN  IF thread.kind \in {"Allocated", "Attached"}
             THEN [panic |-> FALSE, processes |-> removed,
                   database |-> ThreadInfo_exit(thread, exitstatus, db)]
             ELSE [panic |-> FALSE, processes |-> removed, database |-> db]

\* Processes_exit, had it emptied pid2process instead of removing one key
Processes_exit_Clear(ps, db, tid, exitstatus) ==
    IF tid \notin DOMAIN ps.pid2process
    THEN [panic |-> TRUE, processes |-> ps, database |-> db]
    ELSE LET thread == ps.pid2process[tid]
             removed == [ps EXCEPT !.pid2process = EmptyMap]
         IN  IF thread.kind \in {"Allocated", "Attached"}
             THEN [panic |-> FALSE,
                   processes |->
                       [removed EXCEPT !.identifier2pid = MapRemove(@, thread.identifier)],
                   database |-> ThreadInfo_exit(thread, exitstatus, db)]
             ELSE [panic |-> FALSE, processes |-> removed, database |-> db]

\* panic: pid2process.remove(&tid).unwrap() on a TID that is not in the map
Processes_exit(ps, db, tid, exitstatus) ==
    IF tid \notin DOMAIN ps.pid2process
    THEN [panic |-> TRUE, processes |-> ps, database |-> db]
    ELSE LET thread == ps.pid2process[tid]
             removed == [ps EXCEPT !.pid2process = MapRemove(@, tid)]
         IN  IF thread.kind \in {"Allocated", "Attached"}
             THEN [panic |-> FALSE,
                   processes |->
                       [removed EXCEPT !.identifier2pid = MapRemove(@, thread.identifier)],
                   database |-> ThreadInfo_exit(thread, exitstatus, db)]
             ELSE [panic |-> FALSE, processes |-> removed, database |-> db]

\* Processes_is_empty, had it looked at identifier2pid
Processes_is_empty_ById(ps) == DOMAIN ps.identifier2pid = {}

Processes_is_empty(ps) == DOMAIN ps.pid2process = {}

Processes_has_pid(ps, pid) == pid \in DOMAIN ps.pid2process

(* ---------------------- lib.rs: command validation --------------------- *)
\* CString::new: fails on an interior NUL, else appends the terminator
CString_new(bytes) ==
    IF \E i \in DOMAIN bytes : bytes[i] = 0
    THEN [ok |-> FALSE, c |-> <<>>]
    ELSE [ok |-> TRUE, c |-> Append(bytes, 0)]

\* what the kernel reads from a C string: the bytes before the first NUL
RECURSIVE CStr(_)
CStr(c) == IF c = <<>> \/ Head(c) = 0 THEN <<>> ELSE <<Head(c)>> \o CStr(Tail(c))

\* ValidateCommand, had it not looked at the result of converting arg0
ValidateCommand_SkipArg0(cmd, a0) ==
    LET conv == [i \in DOMAIN cmd |-> CString_new(cmd[i])]
    IN  IF \E i \in DOMAIN cmd : ~conv[i].ok
        THEN [ok |-> FALSE, args |-> <<>>, arg0 |-> <<>>]
        ELSE [ok |-> TRUE, args |-> [i \in DOMAIN cmd |-> conv[i].c],
              arg0 |-> Append(a0, 0)]

\* the loop of lib.rs:226-235 and the conversion of arg0, lib.rs:236-239
ValidateCommand(cmd, a0) ==
    LET conv == [i \in DOMAIN cmd |-> CString_new(cmd[i])]
        a == CString_new(a0)
    IN  IF \E i \in DOMAIN cmd : ~conv[i].ok
        THEN [ok |-> FALSE, args |-> <<>>, arg0 |-> <<>>]
        ELSE IF ~a.ok
        THEN [ok |-> FALSE, args |-> <<>>, arg0 |-> <<>>]
        ELSE [ok |-> TRUE, args |-> [i \in DOMAIN cmd |-> conv[i].c], arg0 |-> a.c]

\* execvp(filename, args) as the child calls it, lib.rs:276
ChildExecCall(v) ==
    [file |-> CStr(v.arg0), argv |-> [i \in DOMAIN v.args |-> CStr(v.args[i])]]

(* ------------------------------ results -------------------------------- *)
NoResult == [kind |-> "none", status |-> NoStatus, err |-> ""]
Ok(status) == [kind |-> "ok", status |-> status, err |-> ""]
Err(e) == [kind |-> "err", status |-> NoStatus, err |-> e]
Panic == [kind |-> "panic", status |-> NoStatus, err |-> ""]
\* lib.rs:375: first_exit_code.expect(..) on None
PanicNoExitCode == [Panic EXCEPT !.err = "never got the first process' exit code"]
\* lib.rs:144: pid2process.remove(&tid).unwrap() on None
PanicUnwrap == [Panic EXCEPT !.err = "unwrap on None"]

NoExec == [done |-> FALSE, file |-> <<>>, argv |-> <<>>, opts |-> FALSE, resumed |-> FALSE]
NoLast ==
    [kind |-> "None", tid |-> 0, sig |-> "", event |-> "", msg |-> 0, before |-> "",
     resumes |-> 0, setopts |-> 0, info |-> "", inject |-> "", failed |-> FALSE]
NoHist ==
    [traceme |-> "", selfStopped |-> FALSE, execResult |-> "", forked |-> FALSE,
     firstRootEvent |-> NoEvent, rootStatus |-> NoStatus, notified |-> 0]

VARIABLES
    api,            \* entry point called: "trace" or "trace_arg0"
    command,        \* its command argument
    arg0,           \* its arg0 argument (trace_arg0 only)
    pc,             \* position of the tracer: entry, parent, loop, done
    result,         \* what the entry point returned
    processes,      \* Tracer.processes: pid2process, identifier2pid
    database,       \* Tracer.database: next_process, and the calls it logged
    first_proc,     \* argument of trace_process
    first_exit_code,\* local of trace_process
    tasks,          \* kernel: the task behind every TID
    cpc,            \* position of the forked child in its pre-exec code
    exec,           \* kernel: the execvp call the child made
    child,          \* the pid fork() returned to the parent
    forksLeft,      \* kernel: tasks the traced program may still create
    last,           \* the event the loop handled last and what it did for it
    hist            \* what has happened so far in this run

vars == <<api, command, arg0, pc, result, processes, database, first_proc,
          first_exit_code, tasks, cpc, exec, child, forksLeft, last, hist>>

(* ------------------------------- Init ---------------------------------- *)
\* the state after Tracer::new: an empty registry, Database { next_process: 0 }
InitTracer ==
    /\ pc = "entry"
    /\ result = NoResult
    /\ processes = Processes_new
    /\ database = Database_new
    /\ first_proc = 0
    /\ first_exit_code = NoStatus
    /\ tasks = [t \in Tids |-> FreeTask]
    /\ cpc = ""
    /\ exec = NoExec
    /\ child = 0
    /\ last = NoLast
    /\ hist = NoHist

\* either entry point, on every command within the bounds
Init ==
    /\ InitTracer
    /\ api \in {"trace", "trace_arg0"}
    /\ command \in Commands
    /\ forksLeft = MaxForks
    /\ arg0 \in IF api = "trace" THEN {<<>>} ELSE ByteStrings

(* ------------------- lib.rs: Tracer::trace, trace_arg0 ----------------- *)
Finish(r) ==
    /\ pc' = "done"
    /\ result' = r

\* the arg0 that reaches Tracer::trace_arg0: Tracer::trace passes &command[0]
Arg0Given == IF api = "trace" THEN command[1] ELSE arg0

\* Tracer::trace indexes command[0]: an empty command panics there
TraceEntryPanics == api = "trace" /\ command = <<>>

\* the child fork() creates: a copy of the tracer, about to call traceme
ForkedChild == [FreeTask EXCEPT !.st = "running", !.image = "stub"]

\* lib.rs:214-242 and 285: validation, then fork()
TraceEntry ==
    /\ pc = "entry"
    /\ UNCHANGED <<api, command, arg0, processes, database, first_proc,
                   first_exit_code, exec, forksLeft, last>>
    /\ IF TraceEntryPanics
       THEN Finish(Panic) /\ UNCHANGED <<tasks, cpc, child, hist>>
       ELSE IF ~ValidateCommand(command, Arg0Given).ok
       THEN Finish(Err("InvalidCommand")) /\ UNCHANGED <<tasks, cpc, child, hist>>
       ELSE \/ Finish(Err("Internal")) /\ UNCHANGED <<tasks, cpc, child, hist>>
            \/ \E c \in Tids :
                /\ tasks' = [tasks EXCEPT ![c] = ForkedChild]
                /\ cpc' = "traceme"
                /\ child' = c
                /\ hist' = [hist EXCEPT !.forked = TRUE]
                /\ pc' = "parent"
                /\ UNCHANGED result

\* lib.rs:243-255: add_first, add_file_open, then trace_process(child) starts
ParentSetup ==
    /\ pc = "parent"
    /\ LET wd == Cwd
           r == Processes_add_first(processes, database, child, ThreadGroup(wd))
       IN  /\ processes' = r.processes
           /\ database' = Database_add_file_open(r.database, r.ret, wd, "WDIR", TRUE)
    /\ first_proc' = child
    /\ first_exit_code' = NoStatus
    /\ pc' = "loop"
    /\ UNCHANGED <<api, command, arg0, result, tasks, cpc, exec, child, forksLeft,
                   last, hist>>

(* ---------------------- lib.rs: the child after fork ------------------- *)
\* the root tracee's exit status, as the kernel knows it
RootDies(t, status) ==
    IF tasks[t].creator = 0 THEN [hist EXCEPT !.rootStatus = status] ELSE hist

\* lib.rs:261-272: ptrace::traceme(), exit(125) when it fails
ChildTraceme ==
    /\ pc \in {"parent", "loop"}
    /\ cpc = "traceme"
    /\ \/ /\ tasks' = [tasks EXCEPT ![child].traced = TRUE]
          /\ cpc' = "kill"
          /\ hist' = [hist EXCEPT !.traceme = "ok"]
       \/ /\ tasks' = [tasks EXCEPT ![child].st = "zombie", ![child].ev = EvExited(125)]
          /\ cpc' = "gone"
          /\ hist' = [RootDies(child, Return(125)) EXCEPT !.traceme = "failed"]
    /\ UNCHANGED <<api, command, arg0, pc, result, processes, database, first_proc,
                   first_exit_code, exec, child, forksLeft, last>>

\* lib.rs:274: kill(Pid::this(), SIGSTOP): the traced child enters a
\* signal-delivery-stop that waitpid reports as Stopped(child, SIGSTOP)
ChildKillStop ==
    /\ pc \in {"parent", "loop"}
    /\ cpc = "kill"
    /\ tasks' = [tasks EXCEPT ![child].st = "stopped",
                              ![child].ev = EvStopped("SIGSTOP", "selfstop")]
    /\ cpc' = "exec"
    /\ hist' = [hist EXCEPT !.selfStopped = TRUE]
    /\ UNCHANGED <<api, command, arg0, pc, result, processes, database, first_proc,
                   first_exit_code, exec, child, forksLeft, last>>

\* lib.rs:276-283: execvp(&arg0, &args), exit(127) when it fails.  With
\* PTRACE_O_TRACEEXEC a successful exec stops in PTRACE_EVENT_EXEC.
ChildExec ==
    /\ pc \in {"parent", "loop"}
    /\ cpc = "exec"
    /\ tasks[child].st = "running"
    /\ LET call == ChildExecCall(ValidateCommand(command, Arg0Given))
       IN  exec' = [done |-> TRUE, file |-> call.file, argv |-> call.argv,
                    opts |-> tasks[child].opts, resumed |-> tasks[child].resumed]
    /\ \/ /\ tasks' = [tasks EXCEPT ![child].image = "target",
                                    ![child].st = IF tasks[child].opts THEN "stopped" ELSE @,
                                    ![child].ev = IF tasks[child].opts
                                                  THEN EvPtraceEvent("EXEC", 0) ELSE @]
          /\ cpc' = "target"
          /\ hist' = [hist EXCEPT !.execResult = "ok"]
       \/ /\ tasks' = [tasks EXCEPT ![child].st = "zombie", ![child].ev = EvExited(127)]
          /\ cpc' = "gone"
          /\ hist' = [RootDies(child, Return(127)) EXCEPT !.execResult = "failed"]
    /\ UNCHANGED <<api, command, arg0, pc, result, processes, database, first_proc,
                   first_exit_code, child, forksLeft, last>>

(* ----------------------- kernel: the traced program -------------------- *)
\* a task resumed with PTRACE_SYSCALL stops at its next system call
TraceeSyscallStop(t) ==
    /\ pc = "loop"
    /\ tasks[t].st = "running" /\ tasks[t].traced /\ tasks[t].resumed
    /\ tasks' = [tasks EXCEPT ![t].st = "stopped", ![t].ev = EvPtraceSyscall]
    /\ UNCHANGED <<api, command, arg0, pc, result, processes, database, first_proc,
                   first_exit_code, cpc, exec, child, forksLeft, last, hist>>

\* a signal reaches a task of the traced program: signal-delivery-stop
TraceeSignalStop(t, sig) ==
    /\ pc = "loop"
    /\ tasks[t].st = "running" /\ tasks[t].traced /\ tasks[t].image = "target"
    /\ tasks' = [tasks EXCEPT ![t].st = "stopped", ![t].ev = EvStopped(sig, "signal")]
    /\ UNCHANGED <<api, command, arg0, pc, result, processes, database, first_proc,
                   first_exit_code, cpc, exec, child, forksLeft, last, hist>>

\* the task the kernel creates for fork/vfork/clone under PTRACE_O_TRACEFORK
\* and friends: traced, options inherited, stopped by a SIGSTOP
NewTracee(creator) ==
    [FreeTask EXCEPT !.st = "stopped", !.image = "target", !.traced = TRUE,
                     !.opts = TRUE, !.ev = EvStopped("SIGSTOP", "newchild"),
                     !.creator = creator]

\* a task of the traced program calls fork, vfork or clone: the creator stops
\* in a PTRACE_EVENT stop whose message is the new TID; the new task is
\* attached automatically.  The two stops are reported in either order.
TraceeFork(t, new, kind) ==
    /\ pc = "loop"
    /\ forksLeft > 0
    /\ tasks[t].st = "running" /\ tasks[t].traced /\ tasks[t].image = "target"
    /\ tasks[t].opts
    /\ tasks[new].st = "free"
    /\ tasks' = [tasks EXCEPT ![t].st = "stopped", ![t].ev = EvPtraceEvent(kind, new),
                              ![new] = NewTracee(t)]
    /\ forksLeft' = forksLeft - 1
    /\ UNCHANGED <<api, command, arg0, pc, result, processes, database, first_proc,
                   first_exit_code, cpc, exec, child, last, hist>>

\* a task of the traced program exits
TraceeExit(t, code) ==
    /\ pc = "loop"
    /\ tasks[t].st = "running" /\ tasks[t].image = "target"
    /\ tasks' = [tasks EXCEPT ![t].st = "zombie", ![t].ev = EvExited(code)]
    /\ hist' = RootDies(t, Return(code))
    /\ UNCHANGED <<api, command, arg0, pc, result, processes, database, first_proc,
                   first_exit_code, cpc, exec, child, forksLeft, last>>

\* a task of the traced program is killed by a signal; SIGKILL also ends a
\* task that sits in a ptrace stop, whose stop is then no longer reported
TraceeKilled(t, sig) ==
    /\ pc = "loop"
    /\ tasks[t].image = "target"
    /\ \/ tasks[t].st = "running"
       \/ tasks[t].st = "stopped" /\ sig = "SIGKILL"
    /\ tasks' = [tasks EXCEPT ![t].st = "zombie", ![t].ev = EvSignaled(sig)]
    /\ hist' = RootDies(t, Signal(sig))
    /\ UNCHANGED <<api, command, arg0, pc, result, processes, database, first_proc,
                   first_exit_code, cpc, exec, child, forksLeft, last>>

(* ------------------- lib.rs: Tracer::trace_process --------------------- *)
\* kernel side of the calls the loop makes
Reported(ts, t) == [ts EXCEPT ![t].ev = NoEvent]
Reaped(ts, t) == [ts EXCEPT ![t] = FreeTask]
Resumed(ts, t) == [ts EXCEPT ![t].st = "running", ![t].resumed = TRUE]
OptionsSet(ts, t) == [ts EXCEPT ![t].opts = TRUE]

ThreadKind(ps, pid) ==
    IF Processes_has_pid(ps, pid) THEN ps.pid2process[pid].kind ELSE "Absent"

\* what the loop records about the event it handles; inject is the signal a
\* resume hands to the tracee: ptrace::syscall(pid) hands none
Handling(t, calls, setopts, info, failed) ==
    [kind |-> tasks[t].ev.kind, tid |-> t, sig |-> tasks[t].ev.sig,
     event |-> tasks[t].ev.event, msg |-> tasks[t].ev.msg,
     before |-> ThreadKind(processes, t), resumes |-> calls, setopts |-> setopts,
     info |-> info, inject |-> "", failed |-> failed]

NoteRootEvent(h, t) ==
    IF t = first_proc /\ h.firstRootEvent.kind = "None"
    THEN [h EXCEPT !.firstRootEvent = tasks[t].ev]
    ELSE h

\* lib.rs:293-294: waitpid itself fails, `?` returns the error
WaitFail ==
    /\ pc = "loop"
    /\ Finish(Err("Internal"))
    /\ UNCHANGED <<api, command, arg0, processes, database, first_proc,
                   first_exit_code, tasks, cpc, exec, child, forksLeft, last, hist>>

\* RememberFirst, had the arms never stored the status
RememberFirst_Never(pid, exitstatus) == first_exit_code

\* RememberFirst, had it not compared pid with first_proc
RememberFirst_Any(pid, exitstatus) == exitstatus

\* lib.rs:298-300 and 309-311
RememberFirst(pid, exitstatus) ==
    IF pid = first_proc THEN exitstatus ELSE first_exit_code

\* LoopEnd, had trace_arg0 returned without calling commit
LoopEnd_NoCommit(fe, db) ==
    IF fe = NoStatus
    THEN [result |-> PanicNoExitCode, database |-> db]
    ELSE [result |-> Ok(fe), database |-> db]

\* lib.rs:375-376 and 256-257: the loop is over; expect(), commit(), Ok(ret)
LoopEnd(fe, db) ==
    IF fe = NoStatus
    THEN [result |-> PanicNoExitCode, database |-> db]
    ELSE [result |-> Ok(fe), database |-> Database_commit(db)]

\* lib.rs:296-317: the body shared by the Exited and the Signaled arm
TerminalEvent(t, exitstatus) ==
    LET fe == RememberFirst(t, exitstatus)
        r == Processes_exit(processes, database, t, exitstatus)
        end == LoopEnd(fe, r.database)
    IN  /\ pc = "loop"
        /\ first_exit_code' = fe
        /\ processes' = r.processes
        /\ tasks' = Reaped(tasks, t)
        /\ last' = Handling(t, 0, 0, "", r.panic)
        /\ hist' = NoteRootEvent(hist, t)
        /\ IF r.panic
           THEN Finish(PanicUnwrap) /\ database' = r.database
           ELSE IF Processes_is_empty(r.processes)
           THEN Finish(end.result) /\ database' = end.database
           ELSE database' = r.database /\ UNCHANGED <<pc, result>>
        /\ UNCHANGED <<api, command, arg0, first_proc, cpc, exec, child, forksLeft>>

HandleExited(t) ==
    /\ tasks[t].ev.kind = "Exited"
    /\ TerminalEvent(t, Return(tasks[t].ev.code))

HandleSignaled(t) ==
    /\ tasks[t].ev.kind = "Signaled"
    /\ TerminalEvent(t, Signal(tasks[t].ev.sig))

\* Continue, had the arms dropped the results of their kernel calls
Continue_Ignore(failed) == UNCHANGED <<pc, result>>

\* the end of an arm that made some kernel calls: `?` returns on a failure
Continue(failed) ==
    IF failed THEN Finish(Err("Internal")) ELSE UNCHANGED <<pc, result>>

\* the creator's notification names the task it created
Announced(ts, t) ==
    LET new == ts[t].ev.msg IN
    IF ts[t].ev.event \in CloneKinds /\ ts[new].st # "free" /\ ts[new].creator = t
    THEN [ts EXCEPT ![new].announced = TRUE]
    ELSE ts

\* lib.rs:318-322: PtraceEvent: only ptrace::syscall(pid)?
HandlePtraceEvent(t) ==
    /\ pc = "loop"
    /\ tasks[t].ev.kind = "PtraceEvent"
    /\ \E resOk \in BOOLEAN :
        /\ tasks' = LET ts == Reported(Announced(tasks, t), t)
                    IN  IF resOk THEN Resumed(ts, t) ELSE ts
        /\ last' = Handling(t, 1, 0, "", ~resOk)
        /\ Continue(~resOk)
    /\ hist' = LET h == NoteRootEvent(hist, t)
               IN  IF tasks[t].ev.event \in CloneKinds
                   THEN [h EXCEPT !.notified = @ + 1] ELSE h
    /\ UNCHANGED <<api, command, arg0, processes, database, first_proc,
                   first_exit_code, cpc, exec, child, forksLeft>>

\* lib.rs:367-371: PtraceSyscall: only ptrace::syscall(pid)?
HandlePtraceSyscall(t) ==
    /\ pc = "loop"
    /\ tasks[t].ev.kind = "PtraceSyscall"
    /\ \E resOk \in BOOLEAN :
        /\ tasks' = IF resOk THEN Resumed(Reported(tasks, t), t) ELSE Reported(tasks, t)
        /\ last' = Handling(t, 1, 0, "", ~resOk)
        /\ Continue(~resOk)
    /\ hist' = NoteRootEvent(hist, t)
    /\ UNCHANGED <<api, command, arg0, processes, database, first_proc,
                   first_exit_code, cpc, exec, child, forksLeft>>

\* lib.rs:323-366: the Stopped arm.  optOk, resOk, infoOk: whether
\* set_options, ptrace::syscall and ptrace::getsiginfo succeed if called.
\* calls: ptrace::syscall calls issued; resume: the tracee runs again.
\* SignalStop, had it left every stop without signal info unresumed
SignalStop_NoInfoNoResume(ps, sig, resOk, infoOk) ==
    LET info == IF sig = "SIGTRAP" THEN "" ELSE IF infoOk THEN "ok" ELSE "failed"
    IN  IF sig = "SIGTRAP" \/ infoOk
        THEN [processes |-> ps, setopts |-> 0, opts |-> FALSE, calls |-> 1,
              resume |-> resOk, info |-> info, inject |-> "", failed |-> ~resOk]
        ELSE [processes |-> ps, setopts |-> 0, opts |-> FALSE, calls |-> 0,
              resume |-> FALSE, info |-> info, inject |-> "", failed |-> FALSE]

\* SignalStop, had the resume carried the signal when getsiginfo succeeds
SignalStop_Inject(ps, sig, resOk, infoOk) ==
    LET info == IF sig = "SIGTRAP" THEN "" ELSE IF infoOk THEN "ok" ELSE "failed"
    IN  IF sig = "SIGTRAP" \/ infoOk \/ sig # "SIGSTOP"
        THEN [processes |-> ps, setopts |-> 0, opts |-> FALSE, calls |-> 1,
              resume |-> resOk, info |-> info,
              inject |-> IF info = "ok" THEN sig ELSE "", failed |-> ~resOk]
        ELSE [processes |-> ps, setopts |-> 0, opts |-> FALSE, calls |-> 0,
              resume |-> FALSE, info |-> info, inject |-> "", failed |-> FALSE]

\* info: the outcome of getsiginfo where it is called
SignalStop(ps, sig, resOk, infoOk) ==
    LET info == IF sig = "SIGTRAP" THEN "" ELSE IF infoOk THEN "ok" ELSE "failed"
    IN  IF sig = "SIGTRAP" \/ infoOk \/ sig # "SIGSTOP"
        THEN [processes |-> ps, setopts |-> 0, opts |-> FALSE, calls |-> 1,
              resume |-> resOk, info |-> info, inject |-> "", failed |-> ~resOk]
        ELSE [processes |-> ps, setopts |-> 0, opts |-> FALSE, calls |-> 0,
              resume |-> FALSE, info |-> info, inject |-> "", failed |-> FALSE]

\* StoppedOutcome, had the Allocated branch resumed without set_options
StoppedOutcome_NoOptions(ps, pid, sig, optOk, resOk, infoOk) ==
    IF ~Processes_has_pid(ps, pid)
    THEN [processes |-> Processes_add_unknown(ps, pid), setopts |-> 1, opts |-> optOk,
          calls |-> 0, resume |-> FALSE, info |-> "", inject |-> "", failed |-> ~optOk]
    ELSE IF ps.pid2process[pid].kind = "Allocated"
    THEN [processes |->
              [ps EXCEPT !.pid2process[pid] = Attached(ps.pid2process[pid])],
          setopts |-> 0, opts |-> FALSE, calls |-> 1,
          resume |-> resOk, info |-> "", inject |-> "", failed |-> ~resOk]
    ELSE SignalStop(ps, sig, resOk, infoOk)

\* StoppedOutcome, had the first-seen branch resumed the new tracee
StoppedOutcome_ResumeUnknown(ps, pid, sig, optOk, resOk, infoOk) ==
    IF ~Processes_has_pid(ps, pid)
    THEN [processes |-> Processes_add_unknown(ps, pid), setopts |-> 1, opts |-> optOk,
          calls |-> IF optOk THEN 1 ELSE 0,
          resume |-> optOk /\ resOk, info |-> "", inject |-> "",
          failed |-> ~(optOk /\ resOk)]
    ELSE IF ps.pid2process[pid].kind = "Allocated"
    THEN [processes |->
              [ps EXCEPT !.pid2process[pid] = Attached(ps.pid2process[pid])],
          setopts |-> 1, opts |-> optOk,
          calls |-> IF optOk THEN 1 ELSE 0,
          resume |-> optOk /\ resOk, info |-> "", inject |-> "",
          failed |-> ~(optOk /\ resOk)]
    ELSE SignalStop(ps, sig, resOk, infoOk)

\* StoppedOutcome, had the Allocated branch not stored Thread::Attached
StoppedOutcome_StayAllocated(ps, pid, sig, optOk, resOk, infoOk) ==
    IF ~Processes_has_pid(ps, pid)
    THEN [processes |-> Processes_add_unknown(ps, pid), setopts |-> 1, opts |-> optOk,
          calls |-> 0, resume |-> FALSE, info |-> "", inject |-> "", failed |-> ~optOk]
    ELSE IF ps.pid2process[pid].kind = "Allocated"
    THEN [processes |-> ps,
          setopts |-> 1, opts |-> optOk,
          calls |-> IF optOk THEN 1 ELSE 0,
          resume |-> optOk /\ resOk, info |-> "", inject |-> "",
          failed |-> ~(optOk /\ resOk)]
    ELSE SignalStop(ps, sig, resOk, infoOk)

StoppedOutcome(ps, pid, sig, optOk, resOk, infoOk) ==
    IF ~Processes_has_pid(ps, pid)
    THEN [processes |-> Processes_add_unknown(ps, pid), setopts |-> 1, opts |-> optOk,
          calls |-> 0, resume |-> FALSE, info |-> "", inject |-> "", failed |-> ~optOk]
    ELSE IF ps.pid2process[pid].kind = "Allocated"
    THEN [processes |->
              [ps EXCEPT !.pid2process[pid] = Attached(ps.pid2process[pid])],
          setopts |-> 1, opts |-> optOk,
          calls |-> IF optOk THEN 1 ELSE 0,
          resume |-> optOk /\ resOk, info |-> "", inject |-> "",
          failed |-> ~(optOk /\ resOk)]
    ELSE SignalStop(ps, sig, resOk, infoOk)

HandleStopped(t) ==
    /\ pc = "loop"
    /\ tasks[t].ev.kind = "Stopped"
    /\ \E optOk, resOk, infoOk \in BOOLEAN :
        LET o == StoppedOutcome(processes, t, tasks[t].ev.sig, optOk, resOk, infoOk)
            ts1 == Reported(tasks, t)
            ts2 == IF o.opts THEN OptionsSet(ts1, t) ELSE ts1
        IN  /\ processes' = o.processes
            /\ tasks' = IF o.resume THEN Resumed(ts2, t) ELSE ts2
            /\ last' = [Handling(t, o.calls, o.setopts, o.info, o.failed)
                            EXCEPT !.inject = o.inject]
            /\ Continue(o.failed)
    /\ hist' = NoteRootEvent(hist, t)
    /\ UNCHANGED <<api, command, arg0, database, first_proc, first_exit_code, cpc,
                   exec, child, forksLeft>>

(* ------------------------------- Next ---------------------------------- *)
Next ==
    \/ TraceEntry
    \/ ParentSetup
    \/ ChildTraceme
    \/ ChildKillStop
    \/ ChildExec
    \/ \E t \in Tids : TraceeSyscallStop(t)
    \/ \E t \in Tids, sig \in StopSignals : TraceeSignalStop(t, sig)
    \/ \E t, new \in Tids, kind \in CloneKinds : TraceeFork(t, new, kind)
    \/ \E t \in Tids, code \in ExitCodes : TraceeExit(t, code)
    \/ \E t \in Tids, sig \in KillSignals : TraceeKilled(t, sig)
    \/ WaitFail
    \/ \E t \in Tids : HandleExited(t)
    \/ \E t \in Tids : HandleSignaled(t)
    \/ \E t \in Tids : HandlePtraceEvent(t)
    \/ \E t \in Tids : HandlePtraceSyscall(t)
    \/ \E t \in Tids : HandleStopped(t)

Spec == Init /\ [][Next]_vars

(* ------------------------- the Recorder's calls ------------------------ *)
Log == database.log
LogOps(op) == {i \in DOMAIN Log : Log[i].op = op}
\* the ProcessId add_first obtained for the root
RootId == Log[1].id
AllFree == \A t \in Tids : tasks[t].st = "free"

\* some element of the command (for trace_arg0 also the override) holds a NUL
NulInCommand ==
    \/ \E i \in DOMAIN command : \E j \in DOMAIN command[i] : command[i][j] = 0
    \/ api = "trace_arg0" /\ \E j \in DOMAIN arg0 : arg0[j] = 0

(* ------------------------------ claims --------------------------------- *)

\* C1: whenever the entry point returns Ok(status), status is the exit status
\* of the root tracee, and it is the status process_exit received for the
\* root's ProcessId -- whatever the order in which descendants ended and
\* whichever TIDs the kernel reused.
C1_ReturnsRootStatus ==
    result.kind = "ok" =>
        /\ result.status = hist.rootStatus
        /\ \E i \in LogOps("process_exit") :
               Log[i].id = RootId /\ Log[i].status = result.status

\* a run that returned although a descendant ended after the root, with every
\* fork used up (so a TID was handed out again)
C1_Witness ==
    /\ result.kind = "ok"
    /\ last.tid # first_proc
    /\ forksLeft = 0

\* C2: the entry point returns InvalidCommand exactly when an element of the
\* command (or the arg0 override of trace_arg0) holds a NUL byte, and then
\* nothing was forked and the Recorder was never called.
C2_InvalidCommandIffNul ==
    /\ pc = "done" => (result = Err("InvalidCommand") <=> NulInCommand)
    /\ result = Err("InvalidCommand") =>
           ~hist.forked /\ AllFree /\ Log = <<>> /\ database.next_process = 0

\* trace_arg0 rejected a command whose only NUL is in the override
C2_Witness ==
    /\ result = Err("InvalidCommand")
    /\ api = "trace_arg0"
    /\ \A i \in DOMAIN command : CString_new(command[i]).ok

\* C3: a successful return has exactly one commit, made last, after the loop;
\* an error return has none, and none is made while the run is under way.
C3_CommitExactlyOnSuccess ==
    /\ result.kind = "ok" =>
           Cardinality(LogOps("commit")) = 1 /\ Log[Len(Log)].op = "commit"
    /\ result.kind = "err" => LogOps("commit") = {}
    /\ pc # "done" => LogOps("commit") = {}

\* a successful return after the loop handled the root's exit
C3_Witness ==
    /\ result.kind = "ok"
    /\ last.kind \in {"Exited", "Signaled"}
    /\ Len(Log) >= 4

\* C4: per ProcessId, process_exit is logged at most once and after the
\* add_process that returned the id; every add_file_open of the id lies
\* after that add_process and before the process_exit.
C4_LifetimeEnvelope ==
    /\ \A i, j \in LogOps("process_exit") : Log[i].id = Log[j].id => i = j
    /\ \A j \in LogOps("process_exit") :
           \E i \in LogOps("add_process") : i < j /\ Log[i].id = Log[j].id
    /\ \A k \in LogOps("add_file_open") :
           /\ \E i \in LogOps("add_process") : i < k /\ Log[i].id = Log[k].id
           /\ \A j \in LogOps("process_exit") : Log[j].id = Log[k].id => k < j

\* a log holding the root's add_process, its add_file_open and its process_exit
C4_Witness ==
    /\ \E k \in LogOps("add_file_open"), j \in LogOps("process_exit") :
           Log[k].id = Log[j].id /\ k < j
    /\ hist.notified >= 1

StopKinds == {"Stopped", "PtraceEvent", "PtraceSyscall"}
TerminalKinds == {"Exited", "Signaled"}

\* C5 as stated: for the stop event handled last the loop issued exactly one
\* resume (unless a kernel call failed), and for a terminal event none.
C5_ExactlyOneResume ==
    /\ (last.kind \in StopKinds /\ ~last.failed) => last.resumes = 1
    /\ last.kind \in TerminalKinds => last.resumes = 0

\* C5 as amended: never more than one resume per event; none for terminal
\* events; one for every syscall-stop and ptrace event stop; for a signal
\* stop none when the TID was not in the registry, one (unless set_options
\* failed) when it was Allocated, and otherwise one unless the signal is
\* SIGSTOP and getsiginfo failed.
C5_ResumePolicy ==
    /\ last.resumes \in {0, 1}
    /\ last.kind \in TerminalKinds => last.resumes = 0
    /\ last.kind \in {"PtraceEvent", "PtraceSyscall"} => last.resumes = 1
    /\ last.kind = "Stopped" =>
        /\ last.before = "Absent" => last.resumes = 0
        /\ last.before = "Allocated" => (last.resumes = 1 \/ last.failed)
        /\ last.before \in {"Unknown", "Attached"} =>
               (last.resumes = 0 <=> (last.sig = "SIGSTOP" /\ last.info = "failed"))

\* a signal stop of an Attached tracee, without signal info, answered by a
\* resume
C5_Witness ==
    /\ last.kind = "Stopped"
    /\ last.before = "Attached"
    /\ last.info = "failed"
    /\ last.resumes = 1
    /\ ~last.failed

\* C6: the child's execvp resolves the executable from command[0] and hands
\* the program the vector arg0, command[1..].
C6_ExecResolvesCommand0 ==
    (exec.done /\ Len(command) >= 1) =>
        /\ exec.file = command[1]
        /\ exec.argv = <<Arg0Given>> \o Tail(command)

\* C7: the child calls traceme, then stops itself, then execs; before the
\* first wait returns the root is registered as Allocated; the first event
\* handled for a root that could be traced is its self-stop; and when execvp
\* runs the options are installed on the root and it has been resumed.
C7_SpawnOrdering ==
    /\ hist.selfStopped => hist.traceme = "ok"
    /\ exec.done => hist.selfStopped
    /\ (pc = "loop" /\ last.kind = "None") =>
           /\ ThreadKind(processes, child) = "Allocated"
           /\ first_proc = child
           /\ RootId \in DOMAIN processes.identifier2pid
           /\ processes.identifier2pid[RootId] = child
    /\ (hist.traceme = "ok" /\ hist.firstRootEvent.kind # "None") =>
           hist.firstRootEvent = EvStopped("SIGSTOP", "selfstop")
    /\ exec.done => exec.opts /\ exec.resumed

\* the target image was executed
C7_Witness ==
    /\ exec.done
    /\ hist.execResult = "ok"
    /\ tasks[child].image = "target"

\* the root's exit is the event handled last
RootExitHandled == last.kind = "Exited" /\ last.tid = first_proc /\ first_proc # 0

\* the whole log of a run whose root ended with Return(code)
RootOnlyLog(code) ==
    /\ Len(Log) = 4
    /\ Log[1].op = "add_process"
    /\ Log[2].op = "add_file_open"
    /\ Log[3] = [LogEntry EXCEPT !.op = "process_exit", !.id = RootId,
                                 !.status = Return(code)]
    /\ Log[4].op = "commit"

\* C8: when traceme fails the child exits 125 without stopping or calling
\* execvp; when execvp fails it exits 127.  Once the loop has handled that
\* exit, process_exit is logged for the root with that code, commit is
\* called and the entry point returns Return(125), Return(127): no panic.
C8_SpawnFailureCodes ==
    /\ hist.traceme = "failed" =>
        /\ ~hist.selfStopped /\ ~exec.done
        /\ hist.rootStatus = Return(125)
        /\ result.kind # "panic"
        /\ RootExitHandled => (result = Ok(Return(125)) /\ RootOnlyLog(125))
    /\ hist.execResult = "failed" =>
        /\ hist.rootStatus = Return(127)
        /\ result.kind # "panic"
        /\ RootExitHandled => (result = Ok(Return(127)) /\ RootOnlyLog(127))

\* the loop handled the exit of a child that could not be traced
C8_Witness ==
    /\ hist.traceme = "failed"
    /\ RootExitHandled
    /\ result.kind = "ok"

\* the loop handled the exit of a child whose execvp failed
C8_WitnessExec ==
    /\ hist.execResult = "failed"
    /\ RootExitHandled
    /\ result.kind = "ok"

\* C9: once a clone/fork/vfork notification has been handled, the log holds
\* an add_process for the new tracee whose parent is the ProcessId an
\* earlier add_process returned.
C9_CloneRegistersChild ==
    hist.notified >= 1 =>
        \E i, j \in LogOps("add_process") : i < j /\ Log[j].parent = Log[i].id

\* C10: when the notification of its creator has just been handled, a
\* tracee that had been inserted as Unknown is Unknown no longer and has
\* been resumed.
C10_UnknownPromoted ==
    (/\ last.kind = "PtraceEvent"
     /\ last.event \in CloneKinds
     /\ ~last.failed
     /\ tasks[last.msg].announced
     /\ Processes_has_pid(processes, last.msg)) =>
        /\ ThreadKind(processes, last.msg) # "Unknown"
        /\ tasks[last.msg].resumed

PidMap == processes.pid2process
IdMap == processes.identifier2pid

\* C11: when trace_process has returned Ok the registry is empty: no TID is
\* left in pid2process and no identifier in identifier2pid.
C11_ReturnsWithEmptyRegistry ==
    result.kind = "ok" => (DOMAIN PidMap = {} /\ DOMAIN IdMap = {})

\* a return after the loop had tracked a descendant next to the root
C11_Witness ==
    /\ result.kind = "ok"
    /\ hist.notified >= 1
    /\ last.kind \in TerminalKinds
    /\ last.before = "Unknown"

\* C12: in every state identifier2pid[id] = tid exactly when pid2process[tid]
\* is Allocated or Attached with identifier id and stored tid equal to its
\* key; Unknown entries are in pid2process only.
C12_MapsAreInverse ==
    /\ \A id \in DOMAIN IdMap :
        /\ IdMap[id] \in DOMAIN PidMap
        /\ PidMap[IdMap[id]].kind \in {"Allocated", "Attached"}
        /\ PidMap[IdMap[id]].identifier = id
    /\ \A tid \in DOMAIN PidMap :
        /\ PidMap[tid].tid = tid
        /\ PidMap[tid].kind \in {"Allocated", "Attached"} =>
               /\ PidMap[tid].identifier \in DOMAIN IdMap
               /\ IdMap[PidMap[tid].identifier] = tid
        /\ PidMap[tid].kind = "Unknown" =>
               \A id \in DOMAIN IdMap : IdMap[id] # tid

\* the root has exited and an Unknown tracee is still in the registry
C12_Witness ==
    /\ pc = "loop"
    /\ last.kind \in TerminalKinds /\ last.tid = first_proc
    /\ \E tid \in DOMAIN PidMap : PidMap[tid].kind = "Unknown"

(* ------------- database.rs driven on its own, by any caller ------------ *)
\* a Database just constructed; nothing is traced
DbInit ==
    /\ pc = "recorder"
    /\ api = "trace"
    /\ command = <<>>
    /\ arg0 = <<>>
    /\ result = NoResult
    /\ processes = Processes_new
    /\ database = Database_new
    /\ first_proc = 0
    /\ first_exit_code = NoStatus
    /\ tasks = [t \in Tids |-> FreeTask]
    /\ cpc = ""
    /\ exec = NoExec
    /\ child = 0
    /\ forksLeft = 0
    /\ last = NoLast
    /\ hist = NoHist

\* the ProcessIds add_process has returned so far
IssuedIds == {Log[i].id : i \in LogOps("add_process")}

DbUnchanged ==
    UNCHANGED <<api, command, arg0, result, processes, first_proc, first_exit_code,
                tasks, cpc, exec, child, forksLeft, last, hist>>

DbAddProcess ==
    /\ pc = "recorder" /\ Len(Log) < MaxDbCalls
    /\ \E parent \in {NoId} \cup IssuedIds, is_thread \in BOOLEAN :
        database' = Database_add_process(database, parent, Cwd, is_thread).database
    /\ UNCHANGED pc /\ DbUnchanged

DbAddFileOpen ==
    /\ pc = "recorder" /\ Len(Log) < MaxDbCalls
    /\ \E id \in IssuedIds :
        database' = Database_add_file_open(database, id, Cwd, "WDIR", TRUE)
    /\ UNCHANGED pc /\ DbUnchanged

DbProcessExit ==
    /\ pc = "recorder" /\ Len(Log) < MaxDbCalls
    /\ \E id \in IssuedIds, status \in {Return(0), Signal("SIGKILL")} :
        database' = Database_process_exit(database, id, status)
    /\ UNCHANGED pc /\ DbUnchanged

\* commit(self) consumes the Database
DbCommit ==
    /\ pc = "recorder"
    /\ database' = Database_commit(database)
    /\ pc' = "done"
    /\ DbUnchanged

DbNext == DbAddProcess \/ DbAddFileOpen \/ DbProcessExit \/ DbCommit

SpecDb == DbInit /\ [][DbNext]_vars

\* the add_process calls logged before position i
AddedBefore(i) == {j \in LogOps("add_process") : j < i}

\* C13: the ProcessIds add_process returns are 0, 1, 2, ... in the order of
\* the calls: each is fresh and greater than every one returned before.
C13_FreshIncreasingIds ==
    /\ \A i \in LogOps("add_process") : Log[i].id = Cardinality(AddedBefore(i))
    /\ \A i, j \in LogOps("add_process") : i < j => Log[i].id < Log[j].id
    /\ database.next_process = Cardinality(LogOps("add_process"))

\* three add_process calls with other calls in between
C13_Witness ==
    /\ Cardinality(LogOps("add_process")) >= 3
    /\ LogOps("process_exit") # {}

\* the two calls made for the root before the loop starts
RootAdded ==
    [LogEntry EXCEPT !.op = "add_process", !.id = 0, !.parent = NoId, !.path = Cwd,
                     !.flag = FALSE]
RootWdir ==
    [LogEntry EXCEPT !.op = "add_file_open", !.id = 0, !.path = Cwd, !.mode = "WDIR",
                     !.flag = TRUE]

\* C14: when the traced command created no tracee and the entry point
\* returned, the Recorder was called exactly four times: add_process(None,
\* cwd, false), add_file_open(root id, cwd, WDIR, true), process_exit(root
\* id, status), commit; the first two before the loop handled any event.
C14_RootOnlyCallSequence ==
    /\ (pc = "loop" /\ last.kind = "None") => Log = <<RootAdded, RootWdir>>
    /\ (result.kind = "ok" /\ forksLeft = MaxForks) =>
           Log = <<RootAdded, RootWdir,
                   [LogEntry EXCEPT !.op = "process_exit", !.id = RootAdded.id,
                                    !.status = hist.rootStatus],
                   [LogEntry EXCEPT !.op = "commit"]>>

\* the target ran, created nothing and exited with code 0
C14_Witness ==
    /\ result = Ok(Return(0))
    /\ forksLeft = MaxForks
    /\ hist.execResult = "ok"

\* the step in which the loop handles the Stopped status of t
StoppedStep(t) == tasks[t].ev.kind = "Stopped" /\ tasks'[t].ev.kind = "None"

\* C15, in every state: a tracee that is Unknown in the registry has not
\* been resumed since the kernel created it, and a Stopped event handled for
\* an Unknown tracee got no resume.
C15_UnknownNotResumed ==
    /\ \A t \in DOMAIN PidMap : PidMap[t].kind = "Unknown" => ~tasks[t].resumed
    /\ (last.kind = "Stopped" /\ last.before = "Unknown") => last.resumes = 0

\* C15, in every step that handles Stopped for a TID absent from the
\* registry: Unknown{tid} is inserted, set_options is called, the Recorder and
\* identifier2pid are left alone and no resume is issued.
C15_FirstSeenStep ==
    \A t \in Tids :
        (StoppedStep(t) /\ ~Processes_has_pid(processes, t)) =>
            /\ processes'.pid2process = MapInsert(PidMap, t, Unknown(t))
            /\ processes'.identifier2pid = IdMap
            /\ database' = database
            /\ last'.setopts = 1 /\ last'.resumes = 0
            /\ tasks'[t].st = "stopped" /\ ~tasks'[t].resumed

C16_AllocatedNotResumed ==
    \A t \in DOMAIN PidMap : PidMap[t].kind = "Allocated" => ~tasks[t].resumed

\* C16, in every step: handling Stopped for an Allocated tracee stores
\* Attached with the same identifier, TID and thread group, calls
\* set_options and, unless a kernel call fails, resumes it once with options
\* installed; an Attached tracee stays Attached until it leaves the registry.
C16_PromotionStep ==
    \A t \in Tids :
        /\ (StoppedStep(t) /\ ThreadKind(processes, t) = "Allocated") =>
            /\ processes'.pid2process = [PidMap EXCEPT ![t] = Attached(PidMap[t])]
            /\ processes'.pid2process[t].identifier = PidMap[t].identifier
            /\ processes'.pid2process[t].tid = t
            /\ processes'.pid2process[t].thread_group = PidMap[t].thread_group
            /\ processes'.identifier2pid = IdMap
            /\ database' = database
            /\ last'.setopts = 1 /\ last'.resumes \in {0, 1} /\ last'.inject = ""
            /\ ~last'.failed =>
                   /\ last'.resumes = 1
                   /\ tasks'[t].st = "running" /\ tasks'[t].opts /\ tasks'[t].resumed
        /\ ThreadKind(processes, t) = "Attached" =>
               ThreadKind(processes', t) \in {"Attached", "Absent"}

\* C16: the first stop of an Allocated tracee promotes and resumes it.
C16_AllocatedPromoted == [](C16_AllocatedNotResumed) /\ [][C16_PromotionStep]_vars

\* the root's first stop has been handled: it is Attached and runs
C16_Witness ==
    /\ last.kind = "Stopped" /\ last.before = "Allocated" /\ ~last.failed
    /\ ThreadKind(processes, last.tid) = "Attached"
    /\ tasks[last.tid].st = "running"

\* C17, in every step: handling Stopped(t, sig) for an Attached tracee issues
\* one resume when sig is SIGTRAP (signal info not queried), one resume when
\* the signal info query succeeds, one resume when the query fails and sig is
\* not SIGSTOP, and none when the query fails and sig is SIGSTOP; no resume
\* carries a signal, no options are set, and the registry and the database
\* are unchanged.
C17_AttachedStopStep ==
    \A t \in Tids :
        (StoppedStep(t) /\ ThreadKind(processes, t) = "Attached") =>
            LET sig == tasks[t].ev.sig
            IN  /\ last'.kind = "Stopped" /\ last'.tid = t /\ last'.sig = sig
                /\ last'.before = "Attached"
                /\ sig = "SIGTRAP" => (last'.info = "" /\ last'.resumes = 1)
                /\ sig # "SIGTRAP" => last'.info \in {"ok", "failed"}
                /\ last'.info = "ok" => last'.resumes = 1
                /\ (last'.info = "failed" /\ sig # "SIGSTOP") => last'.resumes = 1
                /\ (last'.info = "failed" /\ sig = "SIGSTOP") =>
                       (last'.resumes = 0 /\ ~last'.failed /\ tasks'[t].st = "stopped")
                /\ (last'.resumes = 1 /\ ~last'.failed) => tasks'[t].st = "running"
                /\ last'.inject = ""
                /\ last'.setopts = 0
                /\ processes' = processes
                /\ database' = database

\* C17: the signal-stop policy for an Attached tracee.
C17_SignalStopPolicy == [][C17_AttachedStopStep]_vars

\* an Attached tracee stopped by SIGSTOP whose signal info query failed is
\* left stopped
C17_Witness ==
    /\ last.kind = "Stopped" /\ last.before = "Attached"
    /\ last.sig = "SIGSTOP" /\ last.info = "failed" /\ last.resumes = 0
    /\ tasks[last.tid].st = "stopped"

\* the loop handles the terminal event of task t
TerminalStep(t) ==
    /\ pc = "loop"
    /\ tasks[t].ev.kind \in TerminalKinds
    /\ tasks[t].st # "free" /\ tasks'[t].st = "free"

\* the status the handler builds from the event (lib.rs:297, 308)
EventStatus(ev) == IF ev.kind = "Exited" THEN Return(ev.code) ELSE Signal(ev.sig)

\* the log after calls, and after the commit that follows if the trace ends
LogAfter(calls) ==
    IF result'.kind = "ok"
    THEN Log \o calls \o <<[LogEntry EXCEPT !.op = "commit"]>>
    ELSE Log \o calls

\* C18, in every state: the TID of a task that does not exist is in neither
\* map, so a task created with that TID is first seen.
C18_FreeTidAbsent ==
    \A t \in Tids :
        tasks[t].st = "free" =>
            /\ t \notin DOMAIN PidMap
            /\ \A id \in DOMAIN IdMap : IdMap[id] # t

\* C18, in every step: handling Exited or Signaled for a TID of the registry
\* removes that TID from pid2process and leaves every other entry as it was;
\* for an Allocated or Attached entry the identifier leaves identifier2pid
\* and one process_exit(identifier, status) is logged, for an Unknown entry
\* identifier2pid stays and nothing is logged by the handler; the tracee is
\* not resumed and no options are set.
C18_ExitStep ==
    \A t \in Tids :
        (TerminalStep(t) /\ Processes_has_pid(processes, t)) =>
            LET thread == PidMap[t]
                status == EventStatus(tasks[t].ev)
            IN  /\ processes'.pid2process = MapRemove(PidMap, t)
                /\ \A u \in DOMAIN PidMap \ {t} :
                       u \in DOMAIN processes'.pid2process
                       /\ processes'.pid2process[u] = PidMap[u]
                /\ \A id \in DOMAIN processes'.identifier2pid :
                       processes'.identifier2pid[id] # t
                /\ thread.kind \in {"Allocated", "Attached"} =>
                       /\ processes'.identifier2pid = MapRemove(IdMap, thread.identifier)
                       /\ database'.log = LogAfter(
                              <<[LogEntry EXCEPT !.op = "process_exit",
                                                 !.id = thread.identifier,
                                                 !.status = status]>>)
                /\ thread.kind = "Unknown" =>
                       /\ processes'.identifier2pid = IdMap
                       /\ database'.log = LogAfter(<<>>)
                /\ database'.next_process = database.next_process
                /\ last'.resumes = 0 /\ last'.setopts = 0 /\ ~last'.failed
                /\ last'.kind \in TerminalKinds /\ last'.tid = t

\* C18: the effect of the Exited and Signaled handlers on the registry and
\* the database.
C18_ExitFrame == [](C18_FreeTidAbsent) /\ [][C18_ExitStep]_vars

\* a recorded tracee has left while another entry stays in the registry
C18_Witness ==
    /\ last.kind \in TerminalKinds /\ last.before \in {"Allocated", "Attached"}
    /\ ~last.failed
    /\ last.tid \notin DOMAIN PidMap
    /\ DOMAIN PidMap # {}
    /\ Log[Len(Log)].op = "process_exit"

\* C19, in every state: once a kernel call of a stop handler has failed the
\* trace is over with Error::Internal, and a trace that returned an error
\* has not committed.
C19_FailedIsFatal ==
    /\ (last.failed /\ last.kind \in StopKinds) =>
           (pc = "done" /\ result = Err("Internal"))
    /\ result.kind = "err" => (pc = "done" /\ LogOps("commit") = {})

\* C19, in every step: a step of the loop that ends the trace with an error
\* returns Error::Internal and makes no database call; after the trace has
\* returned no event is handled and the database and the registry stay as
\* they are.
C19_FatalStep ==
    /\ (pc = "loop" /\ pc' = "done" /\ result'.kind = "err") =>
           /\ result' = Err("Internal")
           /\ database' = database
           /\ last' = last \/ (last'.failed /\ last'.kind \in StopKinds)
    /\ pc = "done" =>
           /\ pc' = "done" /\ result' = result
           /\ last' = last
           /\ database' = database
           /\ processes' = processes
           /\ first_exit_code' = first_exit_code

\* C19: a failure in the event loop ends the trace with Error::Internal and
\* without a commit.
C19_LoopFailureFatal == [](C19_FailedIsFatal) /\ [][C19_FatalStep]_vars

\* a kernel call failed while handling a stop, with tracees still registered
C19_Witness ==
    /\ result = Err("Internal")
    /\ last.failed /\ last.kind \in StopKinds
    /\ DOMAIN PidMap # {}
    /\ LogOps("add_process") # {} /\ LogOps("commit") = {}

\* C20, in every state: while the loop runs the root is in the registry
\* exactly as long as its status is not set; the trace never ends in the
\* "never got the first process' exit code" panic; a trace that returned Ok
\* has the status of the root's terminal event.
C20_RootStatusKnown ==
    /\ pc = "loop" => (first_exit_code = NoStatus <=> first_proc \in DOMAIN PidMap)
    /\ result # PanicNoExitCode
    /\ result.kind = "ok" =>
           /\ DOMAIN PidMap = {}
           /\ first_exit_code # NoStatus
           /\ hist.rootStatus # NoStatus
           /\ tasks[first_proc].st = "free"

\* C20, in every step: when the loop ends because the registry became empty,
\* the status is set, by this step's terminal event of the root or by an
\* earlier one.
C20_BreakStep ==
    (pc = "loop" /\ pc' = "done" /\ result'.kind # "err"
        /\ DOMAIN processes'.pid2process = {}) =>
        /\ first_exit_code' # NoStatus
        /\ result' = Ok(first_exit_code')
        /\ \/ first_exit_code # NoStatus
           \/ last'.kind \in TerminalKinds /\ last'.tid = first_proc

\* C20: the loop never ends without the root's status.
C20_ExpectNeverPanics == [](C20_RootStatusKnown) /\ [][C20_BreakStep]_vars

\* the loop ended on the terminal event of another tracee, after the root's
C20_Witness ==
    /\ result.kind = "ok"
    /\ last.kind \in TerminalKinds /\ last.tid # first_proc
    /\ first_exit_code = hist.rootStatus

\* C21, in every state: the Exited and Signaled arms call Processes::exit
\* only for a TID that is in pid2process, so the trace never ends in the
\* panic of pid2process.remove(&tid).unwrap().
C21_ExitLookupNeverFails ==
    /\ result # PanicUnwrap
    /\ last.kind \in TerminalKinds => last.before # "Absent"

====
